---- MODULE Spec2Model ----
(***************************************************************************)
(* Jobs API: the start-up sequence of the server, the users store          *)
(* (models/User.js) and the jobs store (models/Job.js) over one relational *)
(* database.  An email is a sequence of one-character strings, so that the *)
(* schema's LIKE check is computed on it; other strings are TLA+ strings,  *)
(* whose length the schema's length checks read.                           *)
(***************************************************************************)
EXTENDS Integers, Sequences, FiniteSets, TLC

VARIABLES
    pc,        \* position of start(): the step it is about to run
    exitCode,  \* -1 while the process lives, else the code of process.exit
    steps,     \* start-up steps completed so far, in order
    tables,    \* tables that exist in the database
    users,     \* rows of table users, in rowid order
    calls,     \* createUser invocations: arguments, position, result
    jobs,      \* rows of table jobs, in rowid order
    nextJobId, \* AUTOINCREMENT counter of jobs.id
    now        \* the database clock (CURRENT_TIMESTAMP)

vars == <<pc, exitCode, steps, tables, users, calls, jobs, nextJobId, now>>

startVars == <<pc, exitCode, steps, tables>>
userVars  == <<users, calls>>
jobVars   == <<jobs, nextJobId, now>>

----------------------------------------------------------------------------
(* Bounds of the model *)

MaxCalls      == 2   \* createUser invocations
MaxJobs       == 2   \* job rows ever inserted, SpecJob
MaxFieldJobs  == 1   \* job rows ever inserted, SpecFields
MaxTime       == 1   \* ticks of the database clock

----------------------------------------------------------------------------
(* JavaScript values and strings *)

Undefined == [type |-> "undefined", chars |-> ""]
Null      == [type |-> "null", chars |-> ""]
Str(s)    == [type |-> "string", chars |-> s]

\* JavaScript truthiness of a value: undefined, null and "" are falsy.
Truthy(v) == v.type = "string" /\ v.chars # ""

\* SQL: s LIKE '%@%.%'
LikeAtDot(s) ==
    \E i \in 1..Len(s) : \E j \in 1..Len(s) : i < j /\ s[i] = "@" /\ s[j] = "."

----------------------------------------------------------------------------
(* The users store *)

NameMin == 3
NameMax == 50
PasswordMin == 6
BcryptRounds == 10
BcryptHashLen == 60

\* bcrypt.hash(password, salt): a one-way, salted digest.  The digest is kept
\* symbolic (it determines the password only together with the salt); the
\* string it stands for always has BcryptHashLen characters.
BcryptHash(password, salt) ==
    [rounds |-> BcryptRounds, salt |-> salt, digest |-> <<salt, password>>]

HashLength(h) == BcryptHashLen

\* The CHECK constraints of table users.
UserChecks(row) ==
    /\ Len(row.name) >= NameMin
    /\ Len(row.name) <= NameMax
    /\ LikeAtDot(row.email)
    /\ HashLength(row.password) >= PasswordMin

\* A users table whose email column was declared without .unique().
UserUniqueDropped(rows, row) == TRUE

\* The UNIQUE constraint on users.email.
UserUnique(rows, row) == \A i \in 1..Len(rows) : rows[i].email # row.email

\* INSERT INTO users: CHECK constraints are tested before UNIQUE indexes.
InsertUserError(rows, row) ==
    IF ~UserChecks(row) THEN "check"
    ELSE IF ~UserUnique(rows, row) THEN "unique"
    ELSE "none"

Names     == { "Al", "Alice", "Bob" }
Emails    == { <<"a","@","b",".","c">>, <<"b","@","c",".","d">>, <<"a",".","b","@","c">> }
Passwords == { "abc", "secret1" }
Salts     == { 1, 2 }

Calls == 1..MaxCalls

IdleCall == [pc |-> "idle", name |-> "", email |-> <<>>, password |-> "",
             hashedPassword |-> BcryptHash("", 0), result |-> Undefined]

\* createUser, lines 30-31: the salt is drawn and the password hashed.
CreateUserHash(c, name, email, password, salt) ==
    /\ pc = "listening"
    /\ calls[c].pc = "idle"
    /\ calls' = [calls EXCEPT ![c] =
                   [pc |-> "hashed", name |-> name, email |-> email,
                    password |-> password,
                    hashedPassword |-> BcryptHash(password, salt),
                    result |-> Undefined]]
    /\ UNCHANGED <<users, startVars, jobVars>>

\* createUser, lines 33-40: the insert, and the value returned or the
\* rejection of the storage engine thrown.
CreateUserInsert(c) ==
    /\ pc = "listening"
    /\ calls[c].pc = "hashed"
    /\ LET row == [id |-> Len(users) + 1, name |-> calls[c].name,
                   email |-> calls[c].email,
                   password |-> calls[c].hashedPassword]
           err == InsertUserError(users, row)
       IN  IF err = "none"
           THEN /\ users' = Append(users, row)
                /\ calls' = [calls EXCEPT ![c].pc = "done",
                               ![c].result =
                                  [id |-> row.id, name |-> row.name,
                                   email |-> row.email,
                                   hashedPassword |-> row.password]]
           ELSE /\ users' = users
                /\ calls' = [calls EXCEPT ![c].pc = "done",
                               ![c].result = [error |-> err]]
    /\ UNCHANGED <<startVars, jobVars>>

----------------------------------------------------------------------------
(* The jobs store.  Each method is an operator from the database state and  *)
(* the arguments to the state it leaves and the value it returns (ret; a    *)
(* rejection of the storage engine, which the method throws, is the record  *)
(* [error |-> kind]); the action of the method applies it.                  *)

RoleMax == 100
CompanyMax == 50
Statuses == { "pending", "interview", "decline" }
StatusDefault == "pending"

\* An inserted column: a key whose value is undefined takes the column's
\* DEFAULT (NULL where the schema names none).
Column(v, default) == IF v.type = "undefined" THEN default ELSE v

\* INSERT INTO jobs / UPDATE jobs: the constraints of the schema on a row of
\* JavaScript values; NOT NULL and CHECK are tested before the foreign key.
JobRowError(userRows, role, company, status, createdBy) ==
    IF role.type = "null" \/ company.type = "null" \/ status.type = "null"
    THEN "notnull"
    ELSE IF \/ Len(role.chars) > RoleMax
            \/ Len(company.chars) > CompanyMax
            \/ status.chars \notin Statuses
    THEN "check"
    ELSE IF \A i \in 1..Len(userRows) : userRows[i].id # createdBy
    THEN "foreignkey"
    ELSE "none"

\* The row a successful insert stores: created_at and updated_at take their
\* DEFAULT, the time of the insert.
JobRow(id, role, company, status, createdBy, time) ==
    [id |-> id, role |-> role.chars, company |-> company.chars,
     status |-> status.chars, created_by |-> createdBy,
     created_at |-> time, updated_at |-> time]

\* A where clause that leaves out the owner: .where({ id: jobId })
MatchesIdOnly(row, jobId, userId) == row.id = jobId

\* .where({ id: jobId, created_by: userId })
Matches(row, jobId, userId) == row.id = jobId /\ row.created_by = userId

Matching(rows, jobId, userId) ==
    SelectSeq(rows, LAMBDA r : Matches(r, jobId, userId))

\* createJob, lines 69-77
CreateJobCall(rows, nextId, userRows, time, role, company, status, createdBy) ==
    LET r == Column(role, Null)
        c == Column(company, Null)
        s == Column(status, Str(StatusDefault))
        err == JobRowError(userRows, r, c, s, createdBy)
    IN  IF err = "none"
        THEN [jobs |-> Append(rows, JobRow(nextId, r, c, s, createdBy, time)),
              nextJobId |-> nextId + 1,
              ret |-> [id |-> nextId, role |-> role, company |-> company,
                       status |-> status, createdBy |-> createdBy]]
        ELSE [jobs |-> rows, nextJobId |-> nextId, ret |-> [error |-> err]]

CreateJob(role, company, status, createdBy) ==
    /\ pc = "listening"
    /\ LET call == CreateJobCall(jobs, nextJobId, users, now,
                                 role, company, status, createdBy)
       IN  /\ jobs' = call.jobs
           /\ nextJobId' = call.nextJobId
    /\ UNCHANGED <<now, startVars, userVars>>

\* A join on the wrong column: .join("users", "jobs.id", "users.id")
JoinCreatorOnJobId(row, userRows) ==
    LET owners == SelectSeq(userRows, LAMBDA u : u.id = row.id)
    IN  [k \in 1..Len(owners) |->
            [id |-> row.id, role |-> row.role, company |-> row.company,
             status |-> row.status, created_by |-> row.created_by,
             created_at |-> row.created_at, updated_at |-> row.updated_at,
             creator_name |-> owners[k].name]]

\* .join("users", "jobs.created_by", "users.id") with users.name as
\* creator_name: one result row per pair of a job row and its users row.
JoinCreator(row, userRows) ==
    LET owners == SelectSeq(userRows, LAMBDA u : u.id = row.created_by)
    IN  [k \in 1..Len(owners) |->
            [id |-> row.id, role |-> row.role, company |-> row.company,
             status |-> row.status, created_by |-> row.created_by,
             created_at |-> row.created_at, updated_at |-> row.updated_at,
             creator_name |-> owners[k].name]]

RECURSIVE JoinAll(_, _)
JoinAll(rows, userRows) ==
    IF rows = <<>> THEN <<>>
    ELSE JoinCreator(Head(rows), userRows) \o JoinAll(Tail(rows), userRows)

\* getAllJobs, lines 79-84: the rows the query returns.
GetAllJobs(rows, userRows, userId) ==
    JoinAll(SelectSeq(rows, LAMBDA r : r.created_by = userId), userRows)

\* getSingleJob, lines 86-88: .first() of the matching rows, or undefined.
GetSingleJob(rows, jobId, userId) ==
    LET m == Matching(rows, jobId, userId)
    IN  IF m = <<>> THEN Undefined ELSE Head(m)

\* An updates object built by key presence, as Note 1 of the source reads
\* it: if ('role' in payload) updates.role = payload.role; ...
UpdatesByPresence(payload) ==
    [role |-> payload.role, company |-> payload.company, status |-> payload.status]

\* updateJob, lines 92-98: the updates object.  A column whose key the object
\* does not carry is undefined here.
Updates(payload) ==
    [role    |-> IF Truthy(payload.role) THEN payload.role ELSE Undefined,
     company |-> IF Truthy(payload.company) THEN payload.company ELSE Undefined,
     status  |-> IF Truthy(payload.status) THEN payload.status ELSE Undefined]

\* UPDATE jobs SET ...: the row with the columns of the updates object set
\* and updated_at = CURRENT_TIMESTAMP.
Updated(row, updates, time) ==
    [row EXCEPT
       !.role    = IF updates.role.type = "undefined" THEN @ ELSE updates.role.chars,
       !.company = IF updates.company.type = "undefined" THEN @ ELSE updates.company.chars,
       !.status  = IF updates.status.type = "undefined" THEN @ ELSE updates.status.chars,
       !.updated_at = time]

\* An updateJob that reads the row before it updates it, and returns that.
UpdateJobCallStale(rows, userRows, time, jobId, userId, payload) ==
    LET new == [i \in 1..Len(rows) |->
                  IF Matches(rows[i], jobId, userId)
                  THEN Updated(rows[i], Updates(payload), time) ELSE rows[i]]
        before == Matching(rows, jobId, userId)
    IN  [jobs |-> new,
         ret |-> IF before = <<>> THEN Undefined ELSE Head(before)]

\* An updateJob that spreads the whole payload into the updates object, so
\* that a created_by key of the payload is written too.
UpdateJobCallSpread(rows, userRows, time, jobId, userId, payload) ==
    LET new == [i \in 1..Len(rows) |->
                  IF Matches(rows[i], jobId, userId)
                  THEN [Updated(rows[i], Updates(payload), time) EXCEPT
                          !.created_by = IF Truthy(payload.created_by) THEN 2 ELSE @]
                  ELSE rows[i]]
        returning == SelectSeq(new, LAMBDA r : r.id = jobId)
    IN  [jobs |-> new,
         ret |-> IF returning = <<>> THEN Undefined ELSE Head(returning)]

\* updateJob, lines 90-107
UpdateJobCall(rows, userRows, time, jobId, userId, payload) ==
    LET updates == Updates(payload)
        new == [i \in 1..Len(rows) |->
                  IF Matches(rows[i], jobId, userId)
                  THEN Updated(rows[i], updates, time) ELSE rows[i]]
        bad == { i \in 1..Len(rows) :
                   /\ Matches(rows[i], jobId, userId)
                   /\ JobRowError(userRows, Str(new[i].role), Str(new[i].company),
                                  Str(new[i].status), new[i].created_by) # "none" }
        returning == Matching(new, jobId, userId)
    IN  IF bad # {}
        THEN [jobs |-> rows, ret |-> [error |-> "check"]]
        ELSE [jobs |-> new,
              ret |-> IF returning = <<>> THEN Undefined ELSE Head(returning)]

UpdateJob(jobId, userId, payload) ==
    /\ pc = "listening"
    /\ jobs' = UpdateJobCall(jobs, users, now, jobId, userId, payload).jobs
    /\ UNCHANGED <<nextJobId, now, startVars, userVars>>

\* A deleteJob that deletes every job of the caller: .where({ created_by })
DeleteJobCallAllOfOwner(rows, jobId, userId) ==
    [jobs |-> SelectSeq(rows, LAMBDA r : r.created_by # userId),
     ret  |-> Len(SelectSeq(rows, LAMBDA r : r.created_by = userId))]

\* deleteJob, lines 109-115
DeleteJobCall(rows, jobId, userId) ==
    [jobs |-> SelectSeq(rows, LAMBDA r : ~Matches(r, jobId, userId)),
     ret  |-> Len(Matching(rows, jobId, userId))]

DeleteJob(jobId, userId) ==
    /\ pc = "listening"
    /\ jobs' = DeleteJobCall(jobs, jobId, userId).jobs
    /\ UNCHANGED <<nextJobId, now, startVars, userVars>>

\* The database clock advances.
Tick ==
    /\ pc = "listening"
    /\ now' = now + 1
    /\ UNCHANGED <<jobs, nextJobId, startVars, userVars>>



----------------------------------------------------------------------------
(* start() *)

\* line 14: connectDB
Connect ==
    /\ pc = "connect"
    /\ \/ /\ pc' = "initUsers"
          /\ steps' = Append(steps, "connect")
          /\ exitCode' = exitCode
       \/ /\ pc' = "exited"
          /\ exitCode' = 1
          /\ steps' = steps
    /\ UNCHANGED <<tables, userVars, jobVars>>

\* initTable of either model: hasTable, then createTable when absent.
InitTable(t) == IF t \in tables THEN tables ELSE tables \cup {t}

\* lines 18-20: userModel.initTable()
InitUsers ==
    /\ pc = "initUsers"
    /\ \/ /\ pc' = "initJobs"
          /\ tables' = InitTable("users")
          /\ steps' = Append(steps, "initUsers")
          /\ exitCode' = exitCode
       \/ /\ pc' = "exited"
          /\ exitCode' = 1
          /\ UNCHANGED <<tables, steps>>
    /\ UNCHANGED <<userVars, jobVars>>

\* A start() whose catch block logs the failure of jobModel.initTable() and
\* goes on to listen instead of exiting.
InitJobsNoExit ==
    /\ pc = "initJobs"
    /\ \/ /\ pc' = "listen"
          /\ tables' = InitTable("jobs")
          /\ steps' = Append(steps, "initJobs")
       \/ /\ pc' = "listen"
          /\ UNCHANGED <<tables, steps>>
    /\ exitCode' = exitCode
    /\ UNCHANGED <<userVars, jobVars>>

\* lines 21-23: jobModel.initTable()
InitJobs ==
    /\ pc = "initJobs"
    /\ \/ /\ pc' = "listen"
          /\ tables' = InitTable("jobs")
          /\ steps' = Append(steps, "initJobs")
          /\ exitCode' = exitCode
       \/ /\ pc' = "exited"
          /\ exitCode' = 1
          /\ UNCHANGED <<tables, steps>>
    /\ UNCHANGED <<userVars, jobVars>>

\* lines 26-31: the routes are registered and fastify.listen awaited.
Listen ==
    /\ pc = "listen"
    /\ \/ /\ pc' = "listening"
          /\ steps' = Append(steps, "listen")
          /\ exitCode' = exitCode
       \/ /\ pc' = "exited"
          /\ exitCode' = 1
          /\ steps' = steps
    /\ UNCHANGED <<tables, userVars, jobVars>>

----------------------------------------------------------------------------
(* The server from its start: start-up, then registrations. *)

InitStart ==
    /\ pc = "connect"
    /\ exitCode = -1
    /\ steps = <<>>
    /\ tables \in SUBSET {"users", "jobs"}
    /\ users = <<>>
    /\ calls = [c \in Calls |-> IdleCall]
    /\ jobs = <<>>
    /\ nextJobId = 1
    /\ now = 0

NextStart ==
    \/ Connect
    \/ InitUsers
    \/ InitJobs
    \/ Listen
    \/ \E c \in Calls, name \in Names, email \in Emails,
          password \in Passwords, salt \in Salts :
          CreateUserHash(c, name, email, password, salt)
    \/ \E c \in Calls : CreateUserInsert(c)

SpecStart == InitStart /\ [][NextStart]_vars

----------------------------------------------------------------------------
(* The server once it listens, with two registered accounts. *)

LongRole == "xxxxxxxxxxxxxxxxxxxxxxxxxxxxxxxxxxxxxxxxxxxxxxxxxxxxxxxxxxxxxxxxxxxxxxxxxxxxxxxxxxxxxxxxxxxxxxxxxxxxx"

Alice == [id |-> 1, name |-> "Alice", email |-> <<"a","@","b",".","c">>,
          password |-> BcryptHash("secret1", 1)]
Bob   == [id |-> 2, name |-> "Bob", email |-> <<"b","@","c",".","d">>,
          password |-> BcryptHash("abc", 2)]

UserIds  == { 1, 2 }
OwnerIds == { 1, 2, 3 }

CreateRoles     == { Undefined, Str("dev"), Str(LongRole) }
CreateCompanies == { Str("Acme") }
CreateStatuses  == { Undefined, Str("interview") }

\* Keys of a payload that are no column updateJob sets.
Extras == { [id |-> Undefined, created_by |-> Undefined, created_at |-> Undefined],
            [id |-> Str("9"), created_by |-> Str("2"), created_at |-> Str("0")] }

Payloads ==
    { [role |-> r, company |-> c, status |-> s,
       id |-> e.id, created_by |-> e.created_by, created_at |-> e.created_at] :
      r \in { Null, Str("qa") },
      c \in { Undefined, Str("Init") },
      s \in { Undefined, Str(""), Str("decline"), Str("declined") },
      e \in Extras }

\* The payloads that change at most the status.
StatusPayloads ==
    { p \in Payloads : /\ p.role = Null /\ p.company = Undefined
                       /\ p.id = Undefined }

\* The payloads that also carry the keys id, created_by and created_at.
CarryingPayloads == { p \in Payloads : p.id # Undefined }

InitJob ==
    /\ pc = "listening"
    /\ exitCode = -1
    /\ steps = <<"connect", "initUsers", "initJobs", "listen">>
    /\ tables = {"users", "jobs"}
    /\ users = <<Alice, Bob>>
    /\ calls = [c \in Calls |-> IdleCall]
    /\ jobs = <<>>
    /\ nextJobId = 1
    /\ now = 0

\* Jobs of both accounts: created, updated in status, deleted.
NextJob ==
    \/ \E status \in CreateStatuses, createdBy \in OwnerIds :
          /\ nextJobId <= MaxJobs
          /\ CreateJob(Str("dev"), Str("Acme"), status, createdBy)
    \/ \E jobId \in 1..MaxJobs, userId \in UserIds, payload \in StatusPayloads :
          UpdateJob(jobId, userId, payload)
    \/ \E jobId \in 1..MaxJobs, userId \in UserIds : DeleteJob(jobId, userId)
    \/ now < MaxTime /\ Tick

SpecJob == InitJob /\ [][NextJob]_vars

\* Few jobs, under every payload.
NextFields ==
    \/ \E role \in CreateRoles, company \in CreateCompanies,
          status \in CreateStatuses, createdBy \in OwnerIds :
          /\ nextJobId <= MaxFieldJobs
          /\ CreateJob(role, company, status, createdBy)
    \/ \E jobId \in 1..MaxFieldJobs, userId \in UserIds, payload \in CarryingPayloads :
          UpdateJob(jobId, userId, payload)
    \/ \E jobId \in 1..MaxFieldJobs, userId \in UserIds : DeleteJob(jobId, userId)
    \/ now < MaxTime /\ Tick

SpecFields == InitJob /\ [][NextFields]_vars

----------------------------------------------------------------------------
(* Properties of start() and of the users store, under SpecStart *)

StartupOrder == <<"connect", "initUsers", "initJobs", "listen">>

C10_State ==
    /\ \E n \in 0..Len(StartupOrder) : steps = SubSeq(StartupOrder, 1, n)
    /\ pc = "listening" =>
          /\ steps = StartupOrder
          /\ {"users", "jobs"} \subseteq tables
          /\ exitCode = -1
    /\ exitCode \in {-1, 1}
    /\ exitCode = 1 <=> pc = "exited"
    /\ pc = "exited" =>
          /\ Len(steps) < Len(StartupOrder)
          /\ users = <<>> /\ jobs = <<>>
          /\ \A c \in Calls : calls[c].pc = "idle"

\* C10: the server listens only after the connection, the users-table
\* initialization and then the jobs-table initialization have succeeded, in
\* that order; a failure of the connection, of either initialization or of
\* listen ends the process with exit code 1, after which no step runs (no
\* later start-up step, no listening, no request).
C10_StartupFatal ==
    /\ []C10_State
    /\ [][pc # "exited" /\ (pc' = "exited" => exitCode' = 1 /\ steps' = steps)]_vars

\* The jobs-table initialization failed after the users table was initialized:
\* the process has exited with code 1 and never listened.
C10_Witness ==
    /\ pc = "exited"
    /\ exitCode = 1
    /\ steps = <<"connect", "initUsers">>

NameValid(name) == Len(name) >= NameMin /\ Len(name) <= NameMax

Succeeded(c) == calls[c].pc = "done" /\ "id" \in DOMAIN calls[c].result

Failed(c) == calls[c].pc = "done" /\ "error" \in DOMAIN calls[c].result

Stored(email) == \E i \in 1..Len(users) : users[i].email = email

\* The calls made with this email whose name and email pass the schema's checks.
ValidCallsWith(email) ==
    { c \in Calls : /\ calls[c].pc # "idle"
                    /\ calls[c].email = email
                    /\ NameValid(calls[c].name)
                    /\ LikeAtDot(email) }

C2_State ==
    /\ \A i, j \in 1..Len(users) : i # j => users[i].email # users[j].email
    /\ \A e \in Emails :
          /\ Cardinality({ c \in Calls : Succeeded(c) /\ calls[c].email = e }) <= 1
          /\ (/\ ValidCallsWith(e) # {}
              /\ \A c \in ValidCallsWith(e) : calls[c].pc = "done")
             => Cardinality({ c \in ValidCallsWith(e) : Succeeded(c) }) = 1

C2_Step ==
    \A c \in Calls :
       (CreateUserInsert(c) /\ Stored(calls[c].email)) =>
          /\ users' = users
          /\ Failed(c)'
          /\ NameValid(calls[c].name) => calls'[c].result = [error |-> "unique"]

\* C2: no two stored accounts have the same email; an insert of createUser
\* whose email is already stored is rejected (by the UNIQUE constraint when
\* the name passes its checks) and leaves the stored accounts as they were;
\* of the calls made with one email and a valid name, interleaved in any
\* way, exactly one succeeds.
C2_EmailUnique == []C2_State /\ [][C2_Step]_vars

\* Two interleaved calls with the same email have both returned: one stored
\* the account, the other was rejected by the UNIQUE constraint.
C2_Witness ==
    \E c, d \in Calls :
       /\ c # d
       /\ calls[c].email = calls[d].email
       /\ Succeeded(c)
       /\ calls[d].pc = "done"
       /\ calls[d].result = [error |-> "unique"]
       /\ Len(users) = 1

\* C3: a createUser call with a plaintext password shorter than 6 characters
\* fails and stores no account: every call that succeeded was made with a
\* password of at least 6 characters.
C3_ShortPasswordRejected ==
    \A c \in Calls : Succeeded(c) => Len(calls[c].password) >= PasswordMin

----------------------------------------------------------------------------
(* Properties of the jobs store, under SpecJob and SpecFields *)

Rows(rows) == { rows[i] : i \in 1..Len(rows) }

HasId(rows, id) == \E r \in Rows(rows) : r.id = id

Owned(rows, id, userId) == \E r \in Rows(rows) : r.id = id /\ r.created_by = userId

\* A joined row without its creator_name.
JobColumns(j) ==
    [id |-> j.id, role |-> j.role, company |-> j.company, status |-> j.status,
     created_by |-> j.created_by, created_at |-> j.created_at,
     updated_at |-> j.updated_at]

\* The truthy values of the payload are values the schema accepts.
ValidPayload(p) ==
    /\ Truthy(p.role) => Len(p.role.chars) <= RoleMax
    /\ Truthy(p.company) => Len(p.company.chars) <= CompanyMax
    /\ Truthy(p.status) => p.status.chars \in Statuses

\* C1: for every stored job, of owner A, and every other caller B:
\* getSingleJob(id, B) returns undefined, getAllJobs(B) does not hold the
\* job, updateJob(id, B, payload) returns undefined and deleteJob(id, B)
\* returns 0, and neither call changes what A sees of the job (nor any row).
C1_OwnerIsolation ==
    \A r \in Rows(jobs) : \A B \in OwnerIds \ {r.created_by} :
       /\ GetSingleJob(jobs, r.id, B) = Undefined
       /\ \A list \in { GetAllJobs(jobs, users, B) } :
             \A k \in 1..Len(list) : list[k].id # r.id
       /\ \A p \in StatusPayloads :
             \A call \in { UpdateJobCall(jobs, users, now, r.id, B, p) } :
                /\ call.ret = Undefined
                /\ call.jobs = jobs
                /\ GetSingleJob(call.jobs, r.id, r.created_by) = r
       /\ \A call \in { DeleteJobCall(jobs, r.id, B) } :
             /\ call.ret = 0
             /\ call.jobs = jobs
             /\ GetSingleJob(call.jobs, r.id, r.created_by) = r

\* Both accounts own a stored job, and one of the jobs has been updated by
\* its owner.
C1_Witness ==
    /\ \E r \in Rows(jobs) : r.created_by = 1
    /\ \E r \in Rows(jobs) : r.created_by = 2
    /\ \E r \in Rows(jobs) : r.updated_at > r.created_at /\ r.status = "decline"

C5_State ==
    \A id \in 1..nextJobId : \A u \in OwnerIds :
       \A call \in { DeleteJobCall(jobs, id, u) } :
          /\ call.ret \in {0, 1}
          /\ IF Owned(jobs, id, u)
             THEN /\ call.ret = 1
                  /\ call.jobs = SelectSeq(jobs, LAMBDA r : r.id # id)
                  /\ Len(call.jobs) = Len(jobs) - 1
             ELSE /\ call.ret = 0
                  /\ call.jobs = jobs
          /\ DeleteJobCall(call.jobs, id, u) = [jobs |-> call.jobs, ret |-> 0]

C5_Step ==
    /\ nextJobId' >= nextJobId
    /\ \A r \in Rows(jobs) : r.id < nextJobId
    /\ \A id \in 1..MaxJobs + 1 :
          (id < nextJobId /\ ~HasId(jobs, id)) => ~HasId(jobs', id)

\* C5: deleteJob(id, owner) on a stored job of the caller returns 1 and
\* removes that row alone; on any other id or owner it returns 0 and changes
\* nothing; the call repeated returns 0 and changes nothing; and the id of a
\* deleted job is never stored again, so every later call returns 0.
C5_DeleteOnce == []C5_State /\ [][C5_Step]_vars

\* A job has been deleted while another one is still stored.
C5_Witness ==
    /\ Len(jobs) >= 1
    /\ \E id \in 1..MaxJobs : id < nextJobId /\ ~HasId(jobs, id)

\* C7: getAllJobs(userId) returns the stored jobs whose created_by is userId,
\* each once and no other row, each with creator_name the name of the account
\* userId.
C7_ListExact ==
    \A u \in UserIds :
       \A list \in { GetAllJobs(jobs, users, u) } :
          \A mine \in { { r \in Rows(jobs) : r.created_by = u } } :
             /\ { JobColumns(list[k]) : k \in 1..Len(list) } = mine
             /\ Len(list) = Cardinality(mine)
             /\ \A k \in 1..Len(list) :
                   \E i \in 1..Len(users) :
                      users[i].id = u /\ list[k].creator_name = users[i].name

\* Each account owns one stored job; the list of account 1 is its one job,
\* with creator_name Alice.
C7_Witness ==
    /\ Len(jobs) = 2
    /\ jobs[1].created_by = 2
    /\ jobs[2].created_by = 1
    /\ Len(GetAllJobs(jobs, users, 1)) = 1
    /\ GetAllJobs(jobs, users, 1)[1].creator_name = "Alice"
    /\ GetAllJobs(jobs, users, 1)[1].id = 2

\* C8: updateJob on a stored job of the caller (with a payload the schema
\* accepts) returns the row as stored after the update; on an id that is not
\* stored (never inserted, or deleted) or is another owner's, it returns
\* undefined and leaves every row as it was and inserts none; so an updateJob
\* after the deleteJob of the same job does not bring the row back.
C8_UpdateResult ==
    \A id \in 1..nextJobId : \A u \in OwnerIds :
       \A gone \in { DeleteJobCall(jobs, id, u).jobs } : \A p \in StatusPayloads :
          /\ \A call \in { UpdateJobCall(jobs, users, now, id, u, p) } :
                /\ (Owned(jobs, id, u) /\ ValidPayload(p)) =>
                      /\ call.ret \in Rows(call.jobs)
                      /\ call.ret = GetSingleJob(call.jobs, id, u)
                      /\ call.ret.updated_at = now
                /\ ~Owned(jobs, id, u) =>
                      /\ call.ret = Undefined
                      /\ call.jobs = jobs
          /\ ~HasId(gone, id) \/ ~Owned(jobs, id, u)
          /\ UpdateJobCall(gone, users, now, id, u, p) =
                [jobs |-> gone, ret |-> Undefined]

\* One job has been updated by its owner and another job has been deleted.
C8_Witness ==
    /\ \E r \in Rows(jobs) : r.updated_at > r.created_at /\ r.status = "decline"
    /\ \E id \in 1..MaxJobs : id < nextJobId /\ ~HasId(jobs, id)

C6_CreateReturnsRecord ==
    [][\A role \in CreateRoles, company \in CreateCompanies,
          status \in CreateStatuses, createdBy \in OwnerIds :
          (CreateJob(role, company, status, createdBy) /\ nextJobId' # nextJobId) =>
             LET ret == CreateJobCall(jobs, nextJobId, users, now,
                                      role, company, status, createdBy).ret
                 row == jobs'[Len(jobs')]
             IN  /\ status = Undefined => row.status = StatusDefault
                 /\ ret.id = row.id
                 /\ ret.role = Str(row.role)
                 /\ ret.company = Str(row.company)
                 /\ ret.createdBy = row.created_by
                 /\ ret.status = Str(row.status)]_vars

C9_State ==
    /\ \A r \in Rows(jobs) : r.updated_at >= r.created_at
    /\ \A i, j \in 1..Len(jobs) : i # j => jobs[i].id # jobs[j].id
    /\ \A r \in Rows(jobs) : \A p \in Payloads :
          \A call \in { UpdateJobCall(jobs, users, now, r.id, r.created_by, p) } :
             /\ Len(call.jobs) = Len(jobs)
             /\ \A i \in 1..Len(jobs) :
                   /\ call.jobs[i].id = jobs[i].id
                   /\ call.jobs[i].created_by = jobs[i].created_by
                   /\ call.jobs[i].created_at = jobs[i].created_at
                   /\ call.jobs[i].updated_at >= call.jobs[i].created_at

C9_Step ==
    \A r \in Rows(jobs) : \A q \in Rows(jobs') :
       q.id = r.id => q.created_by = r.created_by /\ q.created_at = r.created_at

\* C9: under updateJob with any payload, also one that carries the keys id,
\* created_by and created_at, every job keeps its id, created_by and
\* created_at; from its insert on, a stored job never changes them; and
\* updated_at is never earlier than created_at.
C9_ImmutableFields == []C9_State /\ [][C9_Step]_vars

\* A stored job has been updated, at a later time, by a payload that changed
\* its three mutable columns.
C9_Witness ==
    \E r \in Rows(jobs) :
       /\ r.role = "qa" /\ r.company = "Init" /\ r.status = "decline"
       /\ r.updated_at > r.created_at

====
